---- MODULE Spec2Model ----
(***************************************************************************)
(* The forecasting pipeline of backend/server.py: prepare_dataframe, the   *)
(* five predict_* strategies and the /predict handler predict_stock.       *)
(*                                                                         *)
(* Close prices are integers (a price in cents).  The arithmetic of the    *)
(* strategies is real arithmetic on rationals, carried out exactly: a      *)
(* number is represented by its residues modulo each prime of Moduli (a    *)
(* residue number system), a quotient a/b by a * b^-1 in every residue     *)
(* field.  The map is a ring homomorphism on the rationals whose           *)
(* denominator is prime to every modulus, and it is one-to-one on the      *)
(* rationals a/b with 2*|a|*b below the product of the moduli (> 10^130),  *)
(* which covers every value of a series of up to 62 records (denominators  *)
(* up to 20 * 10^61): two values are equal iff their residue vectors are.  *)
(* Floating-point rounding is not modelled.                                *)
(***************************************************************************)
EXTENDS Integers, Sequences, FiniteSets

VARIABLES
    NeuralProphet,  \* module global: "available" or "None" (import guard)
    Prophet,        \* module global: "available" or "None" (import guard)
    request,        \* the PredictionRequest being served, or NoRequest
    df,             \* the frame prepare_dataframe returned for it, or NoFrame
    df2,            \* prepare_dataframe applied once more to df, or NoFrame
    calls,          \* strategy functions invoked while serving, in order
    libraryError,   \* step at which the advanced library raised, or "none"
    response        \* what the caller received, or NoResponse

vars == <<NeuralProphet, Prophet, request, df, df2, calls, libraryError, response>>

----------------------------------------------------------------------------
(* Bounds of the model.                                                    *)

MaxDays == 2        \* request.days ranges over 1..MaxDays
MaxExtra == 1       \* records beyond a full training window of 60

----------------------------------------------------------------------------
(* Exact arithmetic.                                                       *)

Moduli ==
    << 46337, 46327, 46309, 46307, 46301, 46279, 46273, 46271, 46261, 46237,
       46229, 46219, 46199, 46187, 46183, 46181, 46171, 46153, 46147, 46141,
       46133, 46103, 46099, 46093, 46091, 46073, 46061, 46051 >>

Residues == 1..Len(Moduli)

\* the sequence f, held as the tuple of its elements (each computed once)
AsTuple(f) == f \o <<>>

Num(n) == AsTuple([r \in Residues |-> n % Moduli[r]])

Add(a, b) == AsTuple([r \in Residues |-> (a[r] + b[r]) % Moduli[r]])

Sub(a, b) == AsTuple([r \in Residues |-> (a[r] - b[r]) % Moduli[r]])

Mul(a, b) == AsTuple([r \in Residues |-> (a[r] * b[r]) % Moduli[r]])

\* x^e modulo p, two bits of e at a time
RECURSIVE PowMod(_, _, _)
PowMod(x, e, p) ==
    IF e = 0 THEN 1
    ELSE LET h == PowMod(x, e \div 4, p)
             h2 == (h * h) % p
             x2 == (x * x) % p
             low == IF e % 4 = 0 THEN 1
                    ELSE IF e % 4 = 1 THEN x
                    ELSE IF e % 4 = 2 THEN x2
                    ELSE (x2 * x) % p
         IN  (((h2 * h2) % p) * low) % p

\* a / b, for b # 0: b^(p-2) is the inverse of b modulo the prime p
Div(a, b) ==
    AsTuple([r \in Residues |-> (a[r] * PowMod(b[r], Moduli[r] - 2, Moduli[r])) % Moduli[r]])

----------------------------------------------------------------------------
(* Dates.  A 'YYYY-MM-DD' string is the triple <<y, m, d>>; a pandas       *)
(* Timestamp is a day number, counted from 2023-01-01 (day 0).             *)

Years == 2023..2025

IsLeap(y) == (y % 4 = 0 /\ y % 100 # 0) \/ y % 400 = 0

DaysInMonth(y, m) ==
    IF m = 2 THEN (IF IsLeap(y) THEN 29 ELSE 28)
    ELSE IF m \in {4, 6, 9, 11} THEN 30 ELSE 31

DaysInYear(y) == IF IsLeap(y) THEN 366 ELSE 365

RECURSIVE DaysBeforeYear(_)
DaysBeforeYear(y) == IF y <= 2023 THEN 0 ELSE DaysBeforeYear(y - 1) + DaysInYear(y - 1)

RECURSIVE DaysBeforeMonth(_, _)
DaysBeforeMonth(y, m) == IF m <= 1 THEN 0 ELSE DaysBeforeMonth(y, m - 1) + DaysInMonth(y, m - 1)

DateStr(y, m, d) == [kind |-> "str", ymd |-> <<y, m, d>>]

Timestamp(o) == [kind |-> "ts", ordinal |-> o]

\* pd.to_datetime: parses a date string, leaves a Timestamp as it is
to_datetime(v) ==
    IF v.kind = "ts" THEN v
    ELSE Timestamp(DaysBeforeYear(v.ymd[1]) + DaysBeforeMonth(v.ymd[1], v.ymd[2]) + v.ymd[3] - 1)

\* Timestamp.strftime('%Y-%m-%d')
strftime(ts) ==
    LET y == CHOOSE yy \in Years :
                 DaysBeforeYear(yy) <= ts.ordinal /\ ts.ordinal < DaysBeforeYear(yy) + DaysInYear(yy)
        inYear == ts.ordinal - DaysBeforeYear(y)
        m == CHOOSE mm \in 1..12 :
                 DaysBeforeMonth(y, mm) <= inYear /\ inYear < DaysBeforeMonth(y, mm) + DaysInMonth(y, mm)
    IN  DateStr(y, m, inYear - DaysBeforeMonth(y, m) + 1)

\* Timestamp + timedelta(days=k)
PlusDays(ts, k) == Timestamp(ts.ordinal + k)

----------------------------------------------------------------------------
(* Frames.  A frame is the sequence of its rows in row order; a row keeps  *)
(* its index label idx (the position of the record in the list the frame   *)
(* was first built from), its date and its close.                          *)

NoFrame == <<>>

\* pd.DataFrame(historical): a list of dicts gets the labels 0..n-1, a
\* frame keeps its own
DataFrame(historical) ==
    [i \in 1..Len(historical) |->
        IF "idx" \in DOMAIN historical[i] THEN historical[i]
        ELSE [idx |-> i - 1, date |-> historical[i].date, close |-> historical[i].close]]

\* the ways to merge a and b, each ascending by date, into one frame that is
\* ascending by date.  When neither goes wholly before the other, the middle
\* row of a is placed after the first j rows of b, for every j that keeps the
\* result ascending.
RECURSIVE Merges(_, _)
Merges(a, b) ==
    IF a = <<>> THEN {b}
    ELSE IF b = <<>> THEN {a}
    ELSE IF a[Len(a)].date.ordinal < b[1].date.ordinal THEN {a \o b}
    ELSE IF b[Len(b)].date.ordinal < a[1].date.ordinal THEN {b \o a}
    ELSE LET m == (Len(a) + 1) \div 2
             row == a[m]
             cuts == {j \in 0..Len(b) :
                        /\ j = 0 \/ b[j].date.ordinal <= row.date.ordinal
                        /\ j = Len(b) \/ row.date.ordinal <= b[j + 1].date.ordinal}
         IN  UNION {{l \o <<row>> \o r :
                        l \in Merges(SubSeq(a, 1, m - 1), SubSeq(b, 1, j)),
                        r \in Merges(SubSeq(a, m + 1, Len(a)), SubSeq(b, j + 1, Len(b)))} :
                    j \in cuts}

\* df.sort_values('date'): the default kind is quicksort, which is not
\* stable, so rows with equal dates may come out in any order.  The result
\* is any arrangement of the rows that is ascending by date (here: of rows
\* lo..hi).
RECURSIVE sort_values(_, _, _)
sort_values(frame, lo, hi) ==
    IF lo > hi THEN {<<>>}
    ELSE IF lo = hi THEN {<<frame[lo]>>}
    ELSE LET mid == (lo + hi) \div 2
         IN  UNION {Merges(x, y) :
                        x \in sort_values(frame, lo, mid),
                        y \in sort_values(frame, mid + 1, hi)}

\* prepare_dataframe: the set of frames it may return
prepare_dataframe(historical) ==
    LET frame == DataFrame(historical)
        dated == [i \in 1..Len(frame) |-> [frame[i] EXCEPT !.date = to_datetime(@)]]
    IN  sort_values(dated, 1, Len(dated))

\* the latest date, as a day number, of rows lo..hi of frame
RECURSIVE MaxOrdinal(_, _, _)
MaxOrdinal(frame, lo, hi) ==
    IF lo = hi THEN frame[lo].date.ordinal
    ELSE LET mid == (lo + hi) \div 2
             a == MaxOrdinal(frame, lo, mid)
             b == MaxOrdinal(frame, mid + 1, hi)
         IN  IF a > b THEN a ELSE b

\* df['date'].max()
MaxDate(frame) == Timestamp(MaxOrdinal(frame, 1, Len(frame)))

\* df.tail(k)
tail(frame, k) == SubSeq(frame, IF Len(frame) > k THEN Len(frame) - k + 1 ELSE 1, Len(frame))

\* seq[i] with Python's indexing: from 0, negative i from the end
PyIndex(seq, i) == IF i < 0 THEN seq[Len(seq) + i + 1] ELSE seq[i + 1]

\* f[lo] + ... + f[hi]
RECURSIVE Sum(_, _, _)
Sum(f, lo, hi) ==
    IF lo > hi THEN 0
    ELSE IF lo = hi THEN f[lo]
    ELSE LET mid == (lo + hi) \div 2
         IN  Sum(f, lo, mid) + Sum(f, mid + 1, hi)

----------------------------------------------------------------------------
(* Strategies.  A strategy returns [value, calls]: the prediction list and *)
(* the strategy functions that ran, in call order.                         *)

TrainWindow == 60   \* df.tail(60)
SmoothLag == 20     \* smoothed[-20]
SmoothSpan == 20    \* ... / 20
window == 20        \* predict_arima: window = 20
MinRecords == 30    \* len(df) < 30

alpha == Div(Num(3), Num(10))   \* alpha = 0.3

One == Num(1)

OneMinusAlpha == Sub(One, alpha)    \* (1 - alpha)

\* sklearn LinearRegression().fit(X, y) on one feature: ordinary least
\* squares, X[i] and y[i] for i in 1..n
LinearRegressionFit(X, y) ==
    LET n == Len(X)
        Sx == Sum(X, 1, n)
        Sy == Sum(y, 1, n)
        Sxx == Sum([i \in 1..n |-> X[i] * X[i]], 1, n)
        Sxy == Sum([i \in 1..n |-> X[i] * y[i]], 1, n)
        coef == Div(Num(n * Sxy - Sx * Sy), Num(n * Sxx - Sx * Sx))
    IN  [coef |-> coef,
         intercept |-> Div(Sub(Num(Sy), Mul(coef, Num(Sx))), Num(n))]

\* model.predict(x)
LinearRegressionPredict(model, x) == Add(model.intercept, Mul(model.coef, Num(x)))

predict_linear_regression(frame, days) ==
    LET df_train == tail(frame, TrainWindow)
        X == [i \in 1..Len(df_train) |-> i - 1]           \* range(len(df_train))
        y == [i \in 1..Len(df_train) |-> df_train[i].close]
        model == LinearRegressionFit(X, y)
        last_day == Len(df_train)
        future_days == [i \in 1..days |-> last_day + i]
        last_date == MaxDate(frame)
    IN  [value |-> [i \in 1..days |->
                       [date |-> strftime(PlusDays(last_date, i)),
                        close |-> LinearRegressionPredict(model, future_days[i])]],
         calls |-> <<"predict_linear_regression">>]

\* the loop of predict_lstm over prices[lo..hi], the value before it being
\* prev: each value is alpha * price + keep * (the value before)
RECURSIVE SmoothingLoop(_, _, _, _, _)
SmoothingLoop(prices, lo, hi, prev, keep) ==
    IF lo = hi THEN <<Add(Mul(alpha, Num(prices[lo])), Mul(keep, prev))>>
    ELSE LET mid == (lo + hi) \div 2
             head == SmoothingLoop(prices, lo, mid, prev, keep)
         IN  head \o SmoothingLoop(prices, mid + 1, hi, head[Len(head)], keep)

\* Smoothed with the weight of the previous value wrong: alpha, not 1 - alpha
SmoothedSameWeight(prices, n) ==
    LET first == <<Num(prices[1])>>
    IN  IF n = 1 THEN first ELSE first \o SmoothingLoop(prices, 2, n, first[1], alpha)

\* smoothed, as predict_lstm builds it: [prices[0]], then the loop
Smoothed(prices, n) ==
    LET first == <<Num(prices[1])>>
    IN  IF n = 1 THEN first ELSE first \o SmoothingLoop(prices, 2, n, first[1], OneMinusAlpha)

predict_lstm(frame, days) ==
    LET prices == [i \in 1..Len(frame) |-> frame[i].close]
        smoothed == Smoothed(prices, Len(prices))
        last_date == MaxDate(frame)
        last_value == PyIndex(smoothed, -1)
        trend == Div(Sub(PyIndex(smoothed, -1), PyIndex(smoothed, -SmoothLag)), Num(SmoothSpan))
    IN  [value |-> [k \in 1..days |->
                       [date |-> strftime(PlusDays(last_date, k)),
                        close |-> Add(last_value, Mul(trend, Num(k)))]],
         calls |-> <<"predict_lstm">>]

\* pd.Series(prices).rolling(window=w).mean().iloc[-1], for len(prices) >= w
RollingMeanLast(prices, w) ==
    LET n == Len(prices)
    IN  Div(Num(Sum(prices, n - w + 1, n)), Num(w))

\* predict_arima with timedelta(days=i) for timedelta(days=i+1)
predict_arima_day_early(frame, days) ==
    LET prices == [i \in 1..Len(frame) |-> frame[i].close]
        last_ma == RollingMeanLast(prices, window)
        trend == Div(Num(PyIndex(prices, -1) - PyIndex(prices, -window)), Num(window))
        last_date == MaxDate(frame)
    IN  [value |-> [k \in 1..days |->
                       [date |-> strftime(PlusDays(last_date, k - 1)),
                        close |-> Add(last_ma, Mul(trend, Num(k)))]],
         calls |-> <<"predict_arima">>]

predict_arima(frame, days) ==
    LET prices == [i \in 1..Len(frame) |-> frame[i].close]
        last_ma == RollingMeanLast(prices, window)
        trend == Div(Num(PyIndex(prices, -1) - PyIndex(prices, -window)), Num(window))
        last_date == MaxDate(frame)
    IN  [value |-> [k \in 1..days |->
                       [date |-> strftime(PlusDays(last_date, k)),
                        close |-> Add(last_ma, Mul(trend, Num(k)))]],
         calls |-> <<"predict_arima">>]

----------------------------------------------------------------------------
(* The optional libraries.  What NeuralProphet and Prophet do is outside   *)
(* the repository; a use of one either raises at some step of the try      *)
(* block or yields the forecast frame its interface documents, with        *)
(* forecast values the environment picks (level yhat).                     *)

LibraryOutcomes == {"ok", "prepare", "fit", "predict", "extract"}

Yhats == {90, 110}

\* the distinct dates of rows lo..hi of the history, ascending (Prophet's
\* history_dates)
RECURSIVE HistoryDates(_, _, _)
HistoryDates(frame, lo, hi) ==
    IF lo = hi THEN <<frame[lo].date>>
    ELSE LET mid == (lo + hi) \div 2
             x == HistoryDates(frame, lo, mid)
             y == HistoryDates(frame, mid + 1, hi)
         IN  IF x[Len(x)] = y[1] THEN x \o Tail(y) ELSE x \o y

\* NeuralProphet: model.make_future_dataframe(prophet_df, periods=days), then
\* model.predict(future): the `days` days after the last date of the history
NeuralProphetForecast(frame, days, yhat) ==
    LET last == MaxDate(frame)
    IN  [j \in 1..days |-> [ds |-> PlusDays(last, j), yhat |-> Num(yhat + j)]]

\* Prophet: model.make_future_dataframe(periods=days), then model.predict(future):
\* the distinct dates of the history, then the `days` days after the last
ProphetForecast(frame, days, yhat) ==
    LET history == HistoryDates(frame, 1, Len(frame))
        h == Len(history)
        last == MaxDate(frame)
    IN  [j \in 1..(h + days) |->
            [ds |-> IF j <= h THEN history[j] ELSE PlusDays(last, j - h),
             yhat |-> Num(yhat + j)]]

\* the extraction loop and predictions[:days]
ExtractPredictions(forecast, last_date, days) ==
    LET after(row) == row.ds.ordinal > last_date.ordinal
        predictions == SelectSeq(forecast, after)
        kept == IF Len(predictions) < days THEN Len(predictions) ELSE days
    IN  [k \in 1..kept |-> [date |-> strftime(predictions[k].ds), close |-> predictions[k].yhat]]

\* predict_neural_prophet that runs itself again when the library raises
predict_neural_prophet_retry(frame, days, lib, yhat) ==
    LET fallback == predict_linear_regression(frame, days)
    IN  IF NeuralProphet = "None"
        THEN [value |-> fallback.value, calls |-> <<"predict_neural_prophet">> \o fallback.calls]
        ELSE IF lib = "ok"
        THEN [value |-> ExtractPredictions(NeuralProphetForecast(frame, days, yhat), MaxDate(frame), days),
              calls |-> <<"predict_neural_prophet">>]
        ELSE [value |-> fallback.value,
              calls |-> <<"predict_neural_prophet", "predict_neural_prophet">> \o fallback.calls]

\* lib: the step of the try block at which the library raises, or "ok"
predict_neural_prophet(frame, days, lib, yhat) ==
    LET fallback == predict_linear_regression(frame, days)
    IN  IF NeuralProphet = "None"
        THEN [value |-> fallback.value, calls |-> <<"predict_neural_prophet">> \o fallback.calls]
        ELSE IF lib = "ok"     \* the try block runs to its return
        THEN [value |-> ExtractPredictions(NeuralProphetForecast(frame, days, yhat), MaxDate(frame), days),
              calls |-> <<"predict_neural_prophet">>]
        ELSE \* except Exception: return predict_linear_regression(df, days)
             [value |-> fallback.value, calls |-> <<"predict_neural_prophet">> \o fallback.calls]

\* predict_prophet that falls back to predict_arima when Prophet is None
predict_prophet_other_fallback(frame, days, lib, yhat) ==
    LET fallback == predict_linear_regression(frame, days)
    IN  IF Prophet = "None"
        THEN [value |-> predict_arima(frame, days).value,
              calls |-> <<"predict_prophet">> \o predict_arima(frame, days).calls]
        ELSE IF lib = "ok"
        THEN [value |-> ExtractPredictions(ProphetForecast(frame, days, yhat), MaxDate(frame), days),
              calls |-> <<"predict_prophet">>]
        ELSE [value |-> fallback.value, calls |-> <<"predict_prophet">> \o fallback.calls]

predict_prophet(frame, days, lib, yhat) ==
    LET fallback == predict_linear_regression(frame, days)
    IN  IF Prophet = "None"
        THEN [value |-> fallback.value, calls |-> <<"predict_prophet">> \o fallback.calls]
        ELSE IF lib = "ok"     \* the try block runs to its return
        THEN [value |-> ExtractPredictions(ProphetForecast(frame, days, yhat), MaxDate(frame), days),
              calls |-> <<"predict_prophet">>]
        ELSE \* except Exception: return predict_linear_regression(df, days)
             [value |-> fallback.value, calls |-> <<"predict_prophet">> \o fallback.calls]

----------------------------------------------------------------------------
(* The /predict handler.                                                   *)

NoRequest == [model |-> "none"]
NoResponse == [status |-> 0]

\* a message is the sequence of its pieces; <<>> is the empty string
HTTPException(status_code, detail) ==
    [type |-> "HTTPException", status_code |-> status_code, detail |-> detail]

\* str(e).  For an HTTPException it depends on the installed Starlette:
\* "<status_code>: <detail>" where the class defines __str__, "" where it
\* does not (the exception is built with keyword arguments only).
Str(e) ==
    IF e.type = "HTTPException"
    THEN {<<>>, <<IF e.status_code = 400 THEN "400" ELSE "500", ": ">> \o e.detail}
    ELSE {e.detail}     \* any other exception: its message

\* does this request reach the optional library?
UsesLibrary(req) ==
    /\ Len(req.historical) >= MinRecords
    /\ \/ req.model = "neural_prophet" /\ NeuralProphet # "None"
       \/ req.model = "prophet" /\ Prophet # "None"

\* the try block of predict_stock on the frame prepare_dataframe returned:
\* the value returned, or the exception raised
TryBlock(req, frame, lib, yhat) ==
    LET returned(result) ==
            [kind |-> "return", calls |-> result.calls, predictions |-> result.value]
    IN  IF Len(frame) < MinRecords
        THEN [kind |-> "raise", calls |-> <<>>,
              exc |-> HTTPException(400, <<"Insufficient historical data">>)]
        ELSE IF req.model = "neural_prophet"
        THEN returned(predict_neural_prophet(frame, req.days, lib, yhat))
        ELSE IF req.model = "prophet"
        THEN returned(predict_prophet(frame, req.days, lib, yhat))
        ELSE IF req.model = "lstm"
        THEN returned(predict_lstm(frame, req.days))
        ELSE IF req.model = "arima"
        THEN returned(predict_arima(frame, req.days))
        ELSE IF req.model = "linear_regression"
        THEN returned(predict_linear_regression(frame, req.days))
        ELSE [kind |-> "raise", calls |-> <<>>,
              exc |-> HTTPException(400, <<"Invalid model">>)]

\* the responses predict_stock may send for what its try block did:
\* `except Exception` catches every exception raised in it, the
\* HTTPExceptions of the block included, and raises HTTPException(500, str(e))
Respond(req, out) ==
    IF out.kind = "return"
    THEN {[status |-> 200, symbol |-> req.symbol, model |-> req.model,
           predictions |-> out.predictions]}
    ELSE {[status |-> 500, detail |-> d] : d \in Str(out.exc)}

----------------------------------------------------------------------------
(* The requests of the model.                                              *)

Models == {"neural_prophet", "prophet", "lstm", "arima", "linear_regression"}

ModelNames == Models \cup {"gru"}

\* numbers of records: one, one short of the threshold, the threshold (30
\* to be served), and from a full training window (60) onwards
Lengths ==
    {1, MinRecords - 1, MinRecords} \cup (TrainWindow..(TrainWindow + MaxExtra))

LastDates == {DateStr(2023, 12, 30), DateStr(2024, 2, 27)}

\* <<slope, bump>>: flat, a rising line, a falling line with one record off it
Shapes == {<<0, 0>>, <<2, 0>>, <<-1, 7>>}

Layouts == {"sorted", "reversed", "duplicate"}

\* n records, the last dated `last`: the t-th by date (t = 0..n-1) closes at
\* 100 + slope*t, and bump higher at t = n-21.  "sorted" lists them by date
\* on consecutive days, "reversed" latest first, "duplicate" by date with
\* the two records in the middle of the list on the same day.
Historical(n, last, shape, layout) ==
    LET end == to_datetime(last).ordinal
        dup == (n - 1) \div 2
        back(t) == IF layout = "duplicate" /\ t < dup THEN n - 2 - t ELSE n - 1 - t
        record(t) == [date |-> strftime(Timestamp(end - back(t))),
                      close |-> 100 + shape[1] * t + (IF t = n - 21 THEN shape[2] ELSE 0)]
    IN  AsTuple([i \in 1..n |-> IF layout = "reversed" THEN record(n - i) ELSE record(i - 1)])

Histories ==
    {Historical(n, last, shape, layout) :
        n \in Lengths, last \in LastDates, shape \in Shapes, layout \in Layouts}

Requests ==
    {[symbol |-> "AAPL", model |-> m, days |-> d, historical |-> h] :
        m \in ModelNames, d \in 1..MaxDays, h \in Histories}

----------------------------------------------------------------------------
(* The state machine.                                                      *)

Init ==
    /\ NeuralProphet \in {"available", "None"}
    /\ Prophet \in {"available", "None"}
    /\ request = NoRequest
    /\ df = NoFrame
    /\ df2 = NoFrame
    /\ calls = <<>>
    /\ libraryError = "none"
    /\ response = NoResponse

\* a POST /predict arrives; FastAPI parses its body into a PredictionRequest
post_predict(req) ==
    /\ request = NoRequest
    /\ request' = req
    /\ UNCHANGED <<NeuralProphet, Prophet, df, df2, calls, libraryError, response>>

\* predict_stock, the whole handler
predict_stock ==
    /\ request # NoRequest /\ response = NoResponse
    /\ \E frame \in prepare_dataframe(request.historical) :
       \E lib \in (IF UsesLibrary(request) THEN LibraryOutcomes ELSE {"ok"}) :
       \E yhat \in (IF UsesLibrary(request) /\ lib = "ok" THEN Yhats ELSE {0}) :
          LET out == TryBlock(request, frame, lib, yhat)
          IN  /\ df' = frame
              /\ calls' = out.calls
              /\ libraryError' = IF UsesLibrary(request) /\ lib # "ok" THEN lib ELSE "none"
              /\ response' \in Respond(request, out)
    /\ UNCHANGED <<NeuralProphet, Prophet, request, df2>>

\* the response is sent; nothing of the request is kept
finish ==
    /\ response # NoResponse
    /\ request' = NoRequest
    /\ df' = NoFrame
    /\ calls' = <<>>
    /\ libraryError' = "none"
    /\ response' = NoResponse
    /\ UNCHANGED <<NeuralProphet, Prophet, df2>>

Next ==
    \/ \E req \in Requests : post_predict(req)
    \/ predict_stock
    \/ finish

Spec == Init /\ [][Next]_vars

----------------------------------------------------------------------------
(* prepare_dataframe on its own: a series is prepared, and the frame that  *)
(* comes back is prepared once more.                                       *)

InitPrepare ==
    /\ NeuralProphet = "None"
    /\ Prophet = "None"
    /\ request \in {req \in Requests :
                      req.model = "linear_regression" /\ req.days = 1}
    /\ df = NoFrame
    /\ df2 = NoFrame
    /\ calls = <<>>
    /\ libraryError = "none"
    /\ response = NoResponse

prepare ==
    /\ df = NoFrame
    /\ df' \in prepare_dataframe(request.historical)
    /\ UNCHANGED <<NeuralProphet, Prophet, request, df2, calls, libraryError, response>>

prepare_again ==
    /\ df # NoFrame /\ df2 = NoFrame
    /\ df2' \in prepare_dataframe(df)
    /\ UNCHANGED <<NeuralProphet, Prophet, request, df, calls, libraryError, response>>

NextPrepare == prepare \/ prepare_again

SpecPrepare == InitPrepare /\ [][NextPrepare]_vars

----------------------------------------------------------------------------
(* The claims.                                                             *)

Served == response # NoResponse

Succeeded == Served /\ response.status = 200

\* the closes of frame, in row order
Closes(frame) == [i \in 1..Len(frame) |-> frame[i].close]

\* the latest date among the records the caller sent, as a day number
LatestOrdinal(historical) ==
    MaxOrdinal([i \in 1..Len(historical) |-> [date |-> to_datetime(historical[i].date)]],
               1, Len(historical))

\* C1: a request with fewer than 30 records is answered 400 "Insufficient
\* historical data", whatever its model, and no strategy is invoked.
C1_InsufficientDataIsClientError ==
    (Served /\ Len(request.historical) < MinRecords) =>
        /\ calls = <<>>
        /\ response.status = 400
        /\ response.detail = <<"Insufficient historical data">>

\* C2: a request whose model is none of the five names is answered 400
\* "Invalid model", however many records it has, and returns no predictions.
C2_UnknownModelIsClientError ==
    (Served /\ request.model \notin Models) =>
        /\ calls = <<>>
        /\ response.status = 400
        /\ response.detail = <<"Invalid model">>

\* C3: a successful response holds exactly `days` predictions, the k-th dated
\* k days after the latest historical date, each one day after the one before.
C3_ExactlyDaysConsecutiveDates ==
    Succeeded =>
        /\ Len(response.predictions) = request.days
        /\ \A k \in 1..Len(response.predictions) :
              /\ response.predictions[k].date.kind = "str"
              /\ to_datetime(response.predictions[k].date).ordinal
                    = LatestOrdinal(request.historical) + k
              /\ response.predictions[k].date = strftime(PlusDays(MaxDate(df), k))
        /\ \A k \in 1..(Len(response.predictions) - 1) :
              to_datetime(response.predictions[k + 1].date).ordinal
                    = to_datetime(response.predictions[k].date).ordinal + 1

\* C3 witness: a forecast of the Prophet library over the turn of the year
C3_Witness ==
    /\ Succeeded
    /\ request.model = "prophet" /\ Prophet = "available" /\ libraryError = "none"
    /\ request.days = 2
    /\ response.predictions[1].date = DateStr(2023, 12, 31)
    /\ response.predictions[2].date = DateStr(2024, 1, 1)

\* C4: with the library unavailable, "neural_prophet" (NeuralProphet is None)
\* and "prophet" (Prophet is None) return the list linear regression returns
\* on the same frame and days.
C4_UnavailableEqualsLinearRegression ==
    (/\ Succeeded
     /\ \/ request.model = "neural_prophet" /\ NeuralProphet = "None"
        \/ request.model = "prophet" /\ Prophet = "None") =>
        response.predictions = predict_linear_regression(df, request.days).value

C4_Witness ==
    /\ Succeeded
    /\ request.model = "prophet" /\ Prophet = "None" /\ NeuralProphet = "available"
    /\ request.days = 2
    /\ Len(response.predictions) = 2
    /\ Len(df) = TrainWindow + 1

\* C5: when an available advanced strategy raises, at whatever step, the
\* caller gets a successful response holding the output of linear regression,
\* which ran once, after the one run of the failed strategy.
C5_LibraryErrorFallsBackOnce ==
    (Served /\ libraryError # "none") =>
        /\ response.status = 200
        /\ calls = <<"predict_" \o request.model, "predict_linear_regression">>
        /\ response.predictions = predict_linear_regression(df, request.days).value

C5_Witness ==
    /\ Succeeded
    /\ request.model = "neural_prophet" /\ NeuralProphet = "available"
    /\ libraryError = "fit"
    /\ Len(response.predictions) = 2

\* the closes of the last w rows of frame rise by the same step b from row
\* to row
LinearTail(frame, w, b) ==
    /\ Len(frame) >= w
    /\ \A i \in (Len(frame) - w + 1)..(Len(frame) - 1) :
          frame[i + 1].close - frame[i].close = b

\* C6: linear regression on a trailing 60 records that lie on a line continues
\* that line: the k-th prediction is the last close plus k steps of the line.
C6_LinearInputIsContinued ==
    (Succeeded /\ request.model = "linear_regression" /\ Len(df) >= TrainWindow) =>
        LET b == df[Len(df)].close - df[Len(df) - 1].close
        IN  LinearTail(df, TrainWindow, b) =>
                \A k \in 1..Len(response.predictions) :
                    response.predictions[k].close = Num(df[Len(df)].close + b * k)

\* C7: "lstm" and "arima" on a series with one constant close c predict c on
\* every day.
C7_ConstantSeriesPredictsConstant ==
    (/\ Succeeded
     /\ request.model \in {"lstm", "arima"}
     /\ \A i \in 1..Len(df) : df[i].close = df[1].close) =>
        /\ Len(response.predictions) = request.days
        /\ \A k \in 1..Len(response.predictions) :
              response.predictions[k].close = Num(df[1].close)

C7_Witness ==
    /\ Succeeded
    /\ request.model = "lstm"
    /\ \A i \in 1..Len(df) : df[i].close = df[1].close
    /\ Len(df) = TrainWindow
    /\ Len(response.predictions) = 2
    /\ response.predictions[2].close = Num(100)

\* C8: prepare_dataframe applied to its own output returns the same rows in
\* the same order, ascending by date.
C8_PrepareIsIdempotent ==
    df2 # NoFrame =>
        /\ df2 = df
        /\ \A i \in 1..(Len(df2) - 1) : df2[i].date.ordinal <= df2[i + 1].date.ordinal

\* C9: "lstm" predicts smoothed[n-1] + trend*k with
\* trend = (smoothed[n-1] - smoothed[n-1-20]) / 20, indices from 0.
C9_LstmTrendOverTwentySteps ==
    (Succeeded /\ request.model = "lstm") =>
        LET n == Len(df)
            smoothed == Smoothed(Closes(df), n)
            trend == Div(Sub(PyIndex(smoothed, n - 1), PyIndex(smoothed, n - 1 - 20)), Num(20))
        IN  \A k \in 1..Len(response.predictions) :
                response.predictions[k].close
                    = Add(PyIndex(smoothed, n - 1), Mul(trend, Num(k)))

\* C10: "arima" predicts mean + trend*k with mean the mean of the last 20
\* closes and trend = (price[n-1] - price[n-1-20]) / 20, indices from 0.
C10_ArimaTrendOverTwentySteps ==
    (Succeeded /\ request.model = "arima") =>
        LET n == Len(df)
            price == Closes(df)
            mean == Div(Num(Sum(price, n - 19, n)), Num(20))
            trend == Div(Num(PyIndex(price, n - 1) - PyIndex(price, n - 1 - 20)), Num(20))
        IN  \A k \in 1..Len(response.predictions) :
                response.predictions[k].close = Add(mean, Mul(trend, Num(k)))

====
